---------------------------- MODULE Spec2Model ----------------------------
(***************************************************************************)
(* Model of src/src/firebase_functions.py: the Firestore document helpers  *)
(* of the exam timetable bot (one document per user in collection          *)
(* 'users'), its Cloud Storage helpers, and the key derivation             *)
(* re.sub(r'\W+', '_', course) every document helper applies.              *)
(*                                                                         *)
(* A Python str is a sequence of characters; a character is a one-element  *)
(* token ("a", " ", ...), a non-ASCII one is written by its code point     *)
(* ("U+00E9").                                                             *)
(***************************************************************************)
EXTENDS Integers, Sequences, FiniteSets, TLC

VARIABLES
    course,            \* key derivation: the raw label handed to a helper
    sanitized_course,  \* key derivation: re.sub(r'\W+', '_', course)
    resanitized,       \* key derivation: the derivation applied to its own result
    stage,             \* key derivation: "input", "once", "twice"
    db,                \* Firestore: user id -> document of collection 'users'
    last,              \* the last completed helper call: arguments, outcome
    local_files,       \* the local paths that hold a file
    bucket,            \* Cloud Storage: blob name -> [public]
    pc,                \* concurrent save_exams_details: position of each caller
    call,              \* concurrent save_exams_details: arguments of each caller
    frame              \* concurrent save_exams_details: locals of each caller

vars == <<course, sanitized_course, resanitized, stage, db, last,
          local_files, bucket, pc, call, frame>>

-----------------------------------------------------------------------------
(* Characters.  Python's re on a str pattern is Unicode-aware: \w matches   *)
(* every Unicode letter and digit and the underscore, \W everything else.   *)

AsciiLetters ==
    {"A", "B", "C", "D", "E", "F", "G", "H", "I", "J", "K", "L", "M",
     "N", "O", "P", "Q", "R", "S", "T", "U", "V", "W", "X", "Y", "Z",
     "a", "b", "c", "d", "e", "f", "g", "h", "i", "j", "k", "l", "m",
     "n", "o", "p", "q", "r", "s", "t", "u", "v", "w", "x", "y", "z"}

AsciiDigits == {"0", "1", "2", "3", "4", "5", "6", "7", "8", "9"}

\* e-acute (a letter) and ARABIC-INDIC DIGIT THREE (a digit): str.isalnum()
NonAsciiAlnum == {"U+00E9", "U+0663"}

\* [A-Za-z0-9_]
AsciiWord == AsciiLetters \cup AsciiDigits \cup {"_"}

\* what \w matches in a str pattern (no re.ASCII flag)
WordChars == AsciiWord \cup NonAsciiAlnum

IsWord(c) == c \in WordChars

\* the longest prefix of s matched by \W* is dropped
RECURSIVE SkipNonWord(_)
SkipNonWord(s) ==
    IF s = <<>> \/ IsWord(Head(s)) THEN s ELSE SkipNonWord(Tail(s))

\* re.sub(r'\W', '_', course, ...): every non-word character on its own
RECURSIVE sanitize_each_char(_)
sanitize_each_char(s) ==
    IF s = <<>> THEN <<>>
    ELSE <<IF IsWord(Head(s)) THEN Head(s) ELSE "_">> \o sanitize_each_char(Tail(s))

\* re.sub(r'\W+', '_', course, count=1): the first run only
RECURSIVE sanitize_first_run(_)
sanitize_first_run(s) ==
    IF s = <<>> THEN <<>>
    ELSE IF IsWord(Head(s)) THEN <<Head(s)>> \o sanitize_first_run(Tail(s))
    ELSE <<"_">> \o SkipNonWord(Tail(s))

\* re.sub(r'\W+', '_', course): scanning left to right, every maximal run of
\* non-word characters becomes one "_", every other character is copied
RECURSIVE sanitize(_)
sanitize(s) ==
    IF s = <<>> THEN <<>>
    ELSE IF IsWord(Head(s)) THEN <<Head(s)>> \o sanitize(Tail(s))
    ELSE <<"_">> \o sanitize(SkipNonWord(Tail(s)))

\* the label of the __main__ block (line 291) and the key of line 294
ExampleLabel ==
    <<"U", "G", "B", "S", "3", "0", "3", " ", "-", " ", "C", "O", "M", "P",
    "U", "T", "E", "R", " ", "A", "P", "P", "L", "I", "C", "A", "T", "I", "O",
    "N", "S", " ", "I", "N", " ", "M", "A", "N", "A", "G", "E", "M", "E", "N",
    "T">>

ExampleKey ==
    <<"U", "G", "B", "S", "3", "0", "3", "_", "C", "O", "M", "P", "U", "T",
    "E", "R", "_", "A", "P", "P", "L", "I", "C", "A", "T", "I", "O", "N", "S",
    "_", "I", "N", "_", "M", "A", "N", "A", "G", "E", "M", "E", "N", "T">>

-----------------------------------------------------------------------------
(* Values of a document, tagged: Python None is Firestore null.            *)

Null == [t |-> "null"]
Str(x) == [t |-> "str", s |-> x]
List(x) == [t |-> "list", l |-> x]
Map(f) == [t |-> "map", m |-> f]
\* firestore.DELETE_FIELD, the sentinel of line 213
DELETE_FIELD == [t |-> "delete"]

EmptyMap == [k \in {} |-> Null]

\* the sub-field and field names the helpers spell out
course_code_field == <<"c", "o", "u", "r", "s", "e", "_", "c", "o", "d", "e">>
Exact_Exams_Venue == 
    <<"E", "x", "a", "c", "t", "_", "E", "x", "a", "m", "s", "_", "V", "e", "n", "u", "e">>
No_ID_Venues == <<"N", "o", "_", "I", "D", "_", "V", "e", "n", "u", "e", "s">>
All_Exams_Venue == 
    <<"A", "l", "l", "_", "E", "x", "a", "m", "s", "_", "V", "e", "n", "u", "e">>

\* f'{sanitized_course}.<subfield>'
Dotted(key, subfield) == key \o <<".">> \o subfield

\* a field path given as a string addresses the names between its dots
RECURSIVE SplitAcc(_, _)
SplitAcc(s, cur) ==
    IF s = <<>> THEN <<cur>>
    ELSE IF Head(s) = "." THEN <<cur>> \o SplitAcc(Tail(s), <<>>)
    ELSE SplitAcc(Tail(s), Append(cur, Head(s)))

parse_field_path(s) == SplitAcc(s, <<>>)

\* DocumentSnapshot.get(field_path): the nested value, KeyError when the
\* path does not match the data (the except KeyError of line 153)
RECURSIVE Lookup(_, _)
Lookup(v, names) ==
    IF names = <<>> THEN [found |-> TRUE, value |-> v]
    ELSE IF v.t = "map" /\ Head(names) \in DOMAIN v.m
         THEN Lookup(v.m[Head(names)], Tail(names))
         ELSE [found |-> FALSE, value |-> Null]

\* DocumentReference.update({path: new}) on the data of an existing document:
\* the value at the path is replaced, the maps on the way are created, every
\* other field is left alone; DELETE_FIELD removes the field
RECURSIVE UpdateField(_, _, _)
UpdateField(v, names, new) ==
    LET m == IF v.t = "map" THEN v.m ELSE EmptyMap
        n == Head(names)
    IN  IF Len(names) = 1
        THEN IF new = DELETE_FIELD
             THEN Map([k \in DOMAIN m \ {n} |-> m[k]])
             ELSE Map([k \in DOMAIN m \cup {n} |-> IF k = n THEN new ELSE m[k]])
        ELSE LET child == IF n \in DOMAIN m THEN m[n] ELSE Map(EmptyMap)
             IN  Map([k \in DOMAIN m \cup {n} |->
                        IF k = n THEN UpdateField(child, Tail(names), new)
                        ELSE m[k]])

NoDoc == [exists |-> FALSE, data |-> EmptyMap]
Doc(f) == [exists |-> TRUE, data |-> f]

\* doc_ref.update({path: value}) applied to a stored document
doc_update(doc, path, value) ==
    Doc(UpdateField(Map(doc.data), parse_field_path(path), value).m)

-----------------------------------------------------------------------------
(* What the body of a helper's try block does: the exception it ends with  *)
(* ("none" when it returns), the value it returns, the store it leaves and *)
(* the number of writes the store applied.  A store call that fails in     *)
(* transit raises "transport" and applies nothing.                         *)

Body(e, r, d, w) == [exc |-> e, ret |-> r, db |-> d, writes |-> w]

AllExceptions == {"transport", "NotFound", "AlreadyExists", "KeyError"}

\* try: <body> except <caught>: log; return None
TryExcept(body, caught) ==
    [ret |-> IF body.exc = "none" THEN body.ret ELSE Null,
     raised |-> body.exc \notin caught \cup {"none"},
     exc |-> body.exc,
     db |-> body.db,
     writes |-> body.writes]

\* doc = doc_ref.get(); if doc.exists: return doc.get(path) else: return None
ReadField(d, user_id, path, fail) ==
    IF fail = 1 THEN Body("transport", Null, d, 0)
    ELSE IF ~d[user_id].exists THEN Body("none", Null, d, 0)
    ELSE LET r == Lookup(Map(d[user_id].data), parse_field_path(path))
         IN  IF r.found THEN Body("none", r.value, d, 0)
             ELSE Body("KeyError", Null, d, 0)

\* db.collection('users').document(user_id).update({path: value})
WriteField(d, user_id, path, value, fail) ==
    IF fail = 1 THEN Body("transport", Null, d, 0)
    ELSE IF ~d[user_id].exists THEN Body("NotFound", Null, d, 0)
    ELSE Body("none", Null,
              [d EXCEPT ![user_id] = doc_update(d[user_id], path, value)], 1)

-----------------------------------------------------------------------------
(* The document helpers, each as the function of the store it is: d is the *)
(* store before the call, fail the store call (1 = first, 2 = second) that *)
(* fails in transit, 0 for none.                                           *)

\* lines 38-55
get_course_code(d, user_id, c, fail) ==
    TryExcept(ReadField(d, user_id, Dotted(sanitize(c), course_code_field), fail),
              AllExceptions)

\* lines 58-67
set_course_code(d, user_id, c, code, fail) ==
    TryExcept(WriteField(d, user_id, Dotted(sanitize(c), course_code_field),
                         code, fail),
              AllExceptions)

\* lines 70-82
get_saved_exams_details(d, user_id, fail) ==
    TryExcept(IF fail = 1 THEN Body("transport", Null, d, 0)
              ELSE IF d[user_id].exists
                   THEN Body("none", Map(d[user_id].data), d, 0)
                   ELSE Body("none", Null, d, 0),
              AllExceptions)

\* doc_ref.create(document_data=data): the keys are field names as they are
CreateDoc(d, user_id, data, fail) ==
    IF fail = 1 THEN Body("transport", Null, d, 0)
    ELSE IF d[user_id].exists THEN Body("AlreadyExists", Null, d, 0)
    ELSE Body("none", Null, [d EXCEPT ![user_id] = Doc(data)], 1)

\* save_exams_details that replaces the document instead of updating it
save_replacing(d, user_id, c, course_info, fail) ==
    TryExcept(IF fail # 0 THEN Body("transport", Null, d, 0)
              ELSE Body("none", Null,
                        [d EXCEPT ![user_id] = Doc(sanitize(c) :> course_info)], 1),
              AllExceptions)

\* lines 85-105
save_exams_details(d, user_id, c, course_info, fail) ==
    TryExcept(IF fail = 1 THEN Body("transport", Null, d, 0)
              ELSE IF d[user_id].exists
                   THEN WriteField(d, user_id, sanitize(c), course_info,
                                   IF fail = 2 THEN 1 ELSE 0)
                   ELSE CreateDoc(d, user_id, sanitize(c) :> course_info,
                                  IF fail = 2 THEN 1 ELSE 0),
              AllExceptions)

\* lines 108-122
get_exams_venue(d, user_id, fail) ==
    TryExcept(ReadField(d, user_id, All_Exams_Venue, fail), AllExceptions)

\* lines 125-134
set_exact_venue(d, user_id, c, exact_venue, fail) ==
    TryExcept(WriteField(d, user_id, Dotted(sanitize(c), Exact_Exams_Venue),
                         exact_venue, fail),
              AllExceptions)

\* get_exact_venue with no except clause at all
get_exact_venue_uncaught(d, user_id, c, fail) ==
    TryExcept(ReadField(d, user_id, Dotted(sanitize(c), Exact_Exams_Venue), fail),
              {})

\* lines 137-156: the only helper whose except names KeyError, not Exception
get_exact_venue(d, user_id, c, fail) ==
    TryExcept(ReadField(d, user_id, Dotted(sanitize(c), Exact_Exams_Venue), fail),
              {"KeyError"})

\* set_no_id_venues that stores the sequence whatever its length
set_no_id_venues_as_given(d, user_id, c, no_id_venue, fail) ==
    TryExcept(WriteField(d, user_id, Dotted(sanitize(c), No_ID_Venues),
                         List(no_id_venue), fail),
              AllExceptions)

\* lines 159-178
set_no_id_venues(d, user_id, c, no_id_venue, fail) ==
    TryExcept(IF Len(no_id_venue) > 0
              THEN WriteField(d, user_id, Dotted(sanitize(c), No_ID_Venues),
                              List(no_id_venue), fail)
              ELSE WriteField(d, user_id, Dotted(sanitize(c), No_ID_Venues),
                              Null, fail),
              AllExceptions)

\* lines 181-197: the except falls off the end, which returns None
get_no_id_venues(d, user_id, c, fail) ==
    TryExcept(ReadField(d, user_id, Dotted(sanitize(c), No_ID_Venues), fail),
              AllExceptions)

\* not exams_details: None and the empty dict are false
Falsy(v) == v = Null \/ (v.t = "map" /\ DOMAIN v.m = {})

\* the loop of lines 211-214 over the keys in fields, one update each
RECURSIVE DeleteFields(_, _, _)
DeleteFields(d, user_id, fields) ==
    IF fields = {} THEN d
    ELSE LET k == CHOOSE x \in fields : TRUE
         IN  DeleteFields([d EXCEPT ![user_id] = doc_update(@, k, DELETE_FIELD)],
                          user_id, fields \ {k})

\* delete_exams_details that spares the aggregate field All_Exams_Venue
delete_course_keys_only(d, user_id, fail, done) ==
    LET read == get_saved_exams_details(d, user_id, fail)
        exams_details == read.ret
    IN  TryExcept(
            IF Falsy(exams_details) THEN Body(read.exc, Null, d, 0)
            ELSE LET courses == DOMAIN exams_details.m \ {All_Exams_Venue}
                 IN  IF fail = 2
                     THEN Body("transport", Null,
                               DeleteFields(d, user_id, done \cap courses),
                               Cardinality(done \cap courses))
                     ELSE Body("none", Null, DeleteFields(d, user_id, courses),
                               Cardinality(courses)),
            AllExceptions)

\* lines 200-218: done is the set of keys whose update the store applied
\* before the update that failed (fail = 2); the read of line 206 swallows
\* its own failure (fail = 1) and hands back None, and the call returns at
\* line 208 (exc still tells that the store failed)
delete_exams_details(d, user_id, fail, done) ==
    LET read == get_saved_exams_details(d, user_id, fail)
        exams_details == read.ret
    IN  TryExcept(
            IF Falsy(exams_details) THEN Body(read.exc, Null, d, 0)
            ELSE LET courses == DOMAIN exams_details.m
                 IN  IF fail = 2
                     THEN Body("transport", Null,
                               DeleteFields(d, user_id, done \cap courses),
                               Cardinality(done \cap courses))
                     ELSE Body("none", Null, DeleteFields(d, user_id, courses),
                               Cardinality(courses)),
            AllExceptions)

-----------------------------------------------------------------------------
(* Inputs of the document helpers.                                         *)

Users == {"u1"}

\* raw labels: one with a run of non-word characters, its key, one with a
\* dot (the separator of field paths), and the label whose
\* key is the aggregate field
DocLabels ==
    {<<"a", " ", "-", " ", "b">>, <<"a", "_", "b">>, <<"a", ".", "b">>,
     All_Exams_Venue}

Info1 == Map(course_code_field :> Str("CC1"))
Info2 == Map((course_code_field :> Str("CC1")) @@ (Exact_Exams_Venue :> Str("V1")))
CourseInfos == {Info1, Info2}
Codes == {Str("CC1")}
Venues == {Str("V1")}
NoIdLists == {<<>>, <<"N1">>}

NoCourse == <<>>

NoCall ==
    [op |-> "none", user_id |-> "", course |-> NoCourse, arg |-> Null,
     pre |-> NoDoc, ret |-> Null, raised |-> FALSE, exc |-> "none", writes |-> 0]

\* the record of a helper call that has ended with outcome r on store d
Returned(op, d, user_id, c, arg, r) ==
    [op |-> op, user_id |-> user_id, course |-> c, arg |-> arg,
     pre |-> d[user_id], ret |-> r.ret, raised |-> r.raised,
     exc |-> r.exc, writes |-> r.writes]

keyVars == <<course, sanitized_course, resanitized, stage>>
blobVars == <<local_files, bucket>>
raceVars == <<pc, call, frame>>

\* the variables each specification leaves alone
KeyOff ==
    /\ course = <<>> /\ sanitized_course = <<>> /\ resanitized = <<>>
    /\ stage = "off"
BlobOff == local_files = {} /\ bucket = <<>>
RaceOff == pc = <<>> /\ call = <<>> /\ frame = <<>>

-----------------------------------------------------------------------------
(* Specification Spec: the document helpers called one after another on a  *)
(* store that starts with no document.                                     *)

GetCourseCode ==
    \E user_id \in Users, c \in DocLabels, fail \in {0, 1} :
        \E r \in {get_course_code(db, user_id, c, fail)} :
            /\ db' = r.db
            /\ last' = Returned("get_course_code", db, user_id, c, Null, r)
            /\ UNCHANGED <<keyVars, blobVars, raceVars>>

SetCourseCode ==
    \E user_id \in Users, c \in DocLabels, code \in Codes, fail \in {0, 1} :
        \E r \in {set_course_code(db, user_id, c, code, fail)} :
            /\ db' = r.db
            /\ last' = Returned("set_course_code", db, user_id, c, code, r)
            /\ UNCHANGED <<keyVars, blobVars, raceVars>>

GetSavedExamsDetails ==
    \E user_id \in Users, fail \in {0, 1} :
        \E r \in {get_saved_exams_details(db, user_id, fail)} :
            /\ db' = r.db
            /\ last' = Returned("get_saved_exams_details", db, user_id, NoCourse, Null, r)
            /\ UNCHANGED <<keyVars, blobVars, raceVars>>

SaveExamsDetails ==
    \E user_id \in Users, c \in DocLabels, course_info \in CourseInfos,
       fail \in {0, 1, 2} :
        \E r \in {save_exams_details(db, user_id, c, course_info, fail)} :
            /\ db' = r.db
            /\ last' = Returned("save_exams_details", db, user_id, c, course_info, r)
            /\ UNCHANGED <<keyVars, blobVars, raceVars>>

GetExamsVenue ==
    \E user_id \in Users, fail \in {0, 1} :
        \E r \in {get_exams_venue(db, user_id, fail)} :
            /\ db' = r.db
            /\ last' = Returned("get_exams_venue", db, user_id, NoCourse, Null, r)
            /\ UNCHANGED <<keyVars, blobVars, raceVars>>

SetExactVenue ==
    \E user_id \in Users, c \in DocLabels, exact_venue \in Venues,
       fail \in {0, 1} :
        \E r \in {set_exact_venue(db, user_id, c, exact_venue, fail)} :
            /\ db' = r.db
            /\ last' = Returned("set_exact_venue", db, user_id, c, exact_venue, r)
            /\ UNCHANGED <<keyVars, blobVars, raceVars>>

GetExactVenue ==
    \E user_id \in Users, c \in DocLabels, fail \in {0, 1} :
        \E r \in {get_exact_venue(db, user_id, c, fail)} :
            /\ db' = r.db
            /\ last' = Returned("get_exact_venue", db, user_id, c, Null, r)
            /\ UNCHANGED <<keyVars, blobVars, raceVars>>

SetNoIdVenues ==
    \E user_id \in Users, c \in DocLabels, no_id_venue \in NoIdLists,
       fail \in {0, 1} :
        \E r \in {set_no_id_venues(db, user_id, c, no_id_venue, fail)} :
            /\ db' = r.db
            /\ last' = Returned("set_no_id_venues", db, user_id, c, List(no_id_venue), r)
            /\ UNCHANGED <<keyVars, blobVars, raceVars>>

GetNoIdVenues ==
    \E user_id \in Users, c \in DocLabels, fail \in {0, 1} :
        \E r \in {get_no_id_venues(db, user_id, c, fail)} :
            /\ db' = r.db
            /\ last' = Returned("get_no_id_venues", db, user_id, c, Null, r)
            /\ UNCHANGED <<keyVars, blobVars, raceVars>>

\* with fail = 2 the failing update comes after those of any proper subset
DeleteExamsDetails ==
    \E user_id \in Users, fail \in {0, 1, 2} :
        \E done \in IF fail = 2
                    THEN SUBSET (DOMAIN db[user_id].data) \ {DOMAIN db[user_id].data}
                    ELSE {{}} :
            \E r \in {delete_exams_details(db, user_id, fail, done)} :
                /\ db' = r.db
                /\ last' = Returned("delete_exams_details", db, user_id,
                                    NoCourse, Null, r)
                /\ UNCHANGED <<keyVars, blobVars, raceVars>>

Init ==
    /\ db = [u \in Users |-> NoDoc]
    /\ last = NoCall
    /\ KeyOff /\ BlobOff /\ RaceOff

Next ==
    \/ GetCourseCode
    \/ SetCourseCode
    \/ GetSavedExamsDetails
    \/ SaveExamsDetails
    \/ GetExamsVenue
    \/ SetExactVenue
    \/ GetExactVenue
    \/ SetNoIdVenues
    \/ GetNoIdVenues
    \/ DeleteExamsDetails

Spec == Init /\ [][Next]_vars

-----------------------------------------------------------------------------
(* Specification SpecKey: the key derivation on every label of a bounded   *)
(* set, then on its own result (a helper called with a key for a label, as  *)
(* line 294 does).                                                          *)

MaxLen == 3

Alphabet == {"a", "3", "_", " ", ".", "U+00E9", "U+0663"}

Labels ==
    UNION {[1..n -> Alphabet] : n \in 0..MaxLen} \cup {ExampleLabel}

Derive ==
    /\ stage = "input"
    /\ sanitized_course' = sanitize(course)
    /\ stage' = "once"
    /\ UNCHANGED <<course, resanitized, db, last, blobVars, raceVars>>

DeriveAgain ==
    /\ stage = "once"
    /\ resanitized' = sanitize(sanitized_course)
    /\ stage' = "twice"
    /\ UNCHANGED <<course, sanitized_course, db, last, blobVars, raceVars>>

InitKey ==
    /\ course \in Labels
    /\ sanitized_course = <<>> /\ resanitized = <<>>
    /\ stage = "input"
    /\ db = [u \in Users |-> NoDoc] /\ last = NoCall
    /\ BlobOff /\ RaceOff

NextKey == Derive \/ DeriveAgain

SpecKey == InitKey /\ [][NextKey]_vars

-----------------------------------------------------------------------------
(* Cloud Storage.  A blob is named by its folder and the caller's name      *)
(* (f"screenshots/{remote_file_name}"); the bucket tells of each name       *)
(* whether an object is there and whether it is public.                     *)

Folders == {"screenshots", "calendars"}
LocalPaths == {"shot.png", "cal.ics"}
RemoteNames == {"n1", "n2"}
BlobNames == Folders \X RemoteNames

Url(name) == [t |-> "url", blob |-> name]

Blob(e, r, files, b) == [exc |-> e, ret |-> r, files |-> files, bucket |-> b]

BlobExceptions == {"transport", "FileNotFoundError", "OSError", "NotFound"}

\* try: <body> except Exception: log (and fall off the end: None)
TryExceptBlob(body, caught) ==
    [ret |-> IF body.exc = "none" THEN body.ret ELSE Null,
     raised |-> body.exc \notin caught \cup {"none"},
     exc |-> body.exc,
     files |-> body.files,
     bucket |-> body.bucket]

\* an upload whose os.remove comes before blob.make_public
upload_remove_first(folder, files, b, local_file_path, remote_file_name, fail) ==
    LET name == <<folder, remote_file_name>>
        uploaded == [b EXCEPT ![name] = "private"]
        public == [b EXCEPT ![name] = "public"]
        removed == files \ {local_file_path}
    IN  IF local_file_path \notin files
        THEN Blob("FileNotFoundError", Null, files, b)
        ELSE IF fail = 1 THEN Blob("transport", Null, files, b)
        ELSE IF fail = 3 THEN Blob("OSError", Null, files, uploaded)
        ELSE IF fail = 2 THEN Blob("transport", Null, removed, uploaded)
        ELSE Blob("none", Url(name), removed, public)

\* the body both upload helpers share, lines 230-241 and 256-267:
\* upload_from_filename (fail = 1), make_public (fail = 2), os.remove
\* (fail = 3), return public_url
upload_body(folder, files, b, local_file_path, remote_file_name, fail) ==
    LET name == <<folder, remote_file_name>>
        uploaded == [b EXCEPT ![name] = "private"]
        public == [b EXCEPT ![name] = "public"]
    IN  IF local_file_path \notin files
        THEN Blob("FileNotFoundError", Null, files, b)
        ELSE IF fail = 1 THEN Blob("transport", Null, files, b)
        ELSE IF fail = 2 THEN Blob("transport", Null, files, uploaded)
        ELSE IF fail = 3 THEN Blob("OSError", Null, files, public)
        ELSE Blob("none", Url(name), files \ {local_file_path}, public)

\* lines 221-244
upload_screenshot_to_firebase(files, b, local_file_path, remote_file_name, fail) ==
    TryExceptBlob(upload_body("screenshots", files, b, local_file_path,
                              remote_file_name, fail),
                  BlobExceptions)

\* lines 247-270
upload_calendar_to_firebase(files, b, local_file_path, remote_file_name, fail) ==
    TryExceptBlob(upload_body("calendars", files, b, local_file_path,
                              remote_file_name, fail),
                  BlobExceptions)

\* a delete that removes the name from every folder
delete_from_every_folder(files, b, remote_file_name, fail) ==
    TryExceptBlob(
        IF fail = 1 THEN Blob("transport", Null, files, b)
        ELSE IF b[<<"screenshots", remote_file_name>>] = "absent"
             THEN Blob("NotFound", Null, files, b)
             ELSE Blob("none", Null, files,
                       [n \in BlobNames |->
                           IF n[2] = remote_file_name THEN "absent" ELSE b[n]]),
        BlobExceptions)

\* lines 273-284: the folder is "screenshots", whatever folder the name was
\* uploaded to
delete_from_firebase_storage(files, b, remote_file_name, fail) ==
    TryExceptBlob(
        LET name == <<"screenshots", remote_file_name>>
        IN  IF fail = 1 THEN Blob("transport", Null, files, b)
            ELSE IF b[name] = "absent" THEN Blob("NotFound", Null, files, b)
            ELSE Blob("none", Null, files, [b EXCEPT ![name] = "absent"]),
        BlobExceptions)

\* the record of a storage helper call that has ended with outcome r
ReturnedBlob(op, files, b, local_file_path, remote_file_name, r) ==
    [op |-> op, local_file_path |-> local_file_path,
     remote_file_name |-> remote_file_name,
     had_file |-> local_file_path \in files, pre_bucket |-> b,
     ret |-> r.ret, raised |-> r.raised, exc |-> r.exc]

NoBlobCall ==
    [op |-> "none", local_file_path |-> "", remote_file_name |-> "",
     had_file |-> FALSE, pre_bucket |-> [n \in BlobNames |-> "absent"],
     ret |-> Null, raised |-> FALSE, exc |-> "none"]

-----------------------------------------------------------------------------
(* Specification SpecBlob: the storage helpers called one after another;   *)
(* the artifacts the bot has written are on disk, the bucket is empty.      *)

UploadScreenshot ==
    \E local_file_path \in LocalPaths, remote_file_name \in RemoteNames,
       fail \in {0, 1, 2, 3} :
        \E r \in {upload_screenshot_to_firebase(local_files, bucket,
                      local_file_path, remote_file_name, fail)} :
            /\ local_files' = r.files
            /\ bucket' = r.bucket
            /\ last' = ReturnedBlob("upload_screenshot_to_firebase", local_files,
                                    bucket, local_file_path, remote_file_name, r)
            /\ UNCHANGED <<keyVars, db, raceVars>>

UploadCalendar ==
    \E local_file_path \in LocalPaths, remote_file_name \in RemoteNames,
       fail \in {0, 1, 2, 3} :
        \E r \in {upload_calendar_to_firebase(local_files, bucket,
                      local_file_path, remote_file_name, fail)} :
            /\ local_files' = r.files
            /\ bucket' = r.bucket
            /\ last' = ReturnedBlob("upload_calendar_to_firebase", local_files,
                                    bucket, local_file_path, remote_file_name, r)
            /\ UNCHANGED <<keyVars, db, raceVars>>

DeleteFromStorage ==
    \E remote_file_name \in RemoteNames, fail \in {0, 1} :
        \E r \in {delete_from_firebase_storage(local_files, bucket,
                      remote_file_name, fail)} :
            /\ local_files' = r.files
            /\ bucket' = r.bucket
            /\ last' = ReturnedBlob("delete_from_firebase_storage", local_files,
                                    bucket, "", remote_file_name, r)
            /\ UNCHANGED <<keyVars, db, raceVars>>

InitBlob ==
    /\ local_files = LocalPaths
    /\ bucket = [n \in BlobNames |-> "absent"]
    /\ last = NoBlobCall
    /\ db = [u \in Users |-> NoDoc]
    /\ KeyOff /\ RaceOff

NextBlob ==
    \/ UploadScreenshot
    \/ UploadCalendar
    \/ DeleteFromStorage

SpecBlob == InitBlob /\ [][NextBlob]_vars

-----------------------------------------------------------------------------
(* Specification SpecRace: two callers run save_exams_details for the same *)
(* user with labels of different keys; the read of line 89 and the write of *)
(* line 92 or 97 are separate store calls, and the callers interleave.      *)

Procs == {"p1", "p2"}
RaceUser == "u1"
RaceLabels == {<<"a", " ", "-", " ", "b">>, <<"c", " ", "d">>, All_Exams_Venue}

\* line 89: doc = doc_ref.get()
RaceGet(p) ==
    /\ pc[p] = "get"
    /\ \E fail \in {0, 1} :
        IF fail = 1
        THEN /\ frame' = [frame EXCEPT ![p].exc = "transport"]
             /\ pc' = [pc EXCEPT ![p] = "done"]
        ELSE /\ frame' = [frame EXCEPT ![p].doc_exists = db[RaceUser].exists]
             /\ pc' = [pc EXCEPT ![p] = "write"]
    /\ UNCHANGED <<db, call, last, keyVars, blobVars>>

\* lines 90-99: update when the document was there, create when it was not;
\* lines 101-105: whatever the store raises is logged
RaceWrite(p) ==
    /\ pc[p] = "write"
    /\ \E fail \in {0, 1} :
        \E r \in {IF frame[p].doc_exists
                  THEN WriteField(db, RaceUser, sanitize(call[p].course),
                                  call[p].course_info, fail)
                  ELSE CreateDoc(db, RaceUser,
                                 sanitize(call[p].course) :> call[p].course_info,
                                 fail)} :
            /\ db' = r.db
            /\ frame' = [frame EXCEPT ![p].exc = r.exc]
    /\ pc' = [pc EXCEPT ![p] = "done"]
    /\ UNCHANGED <<call, last, keyVars, blobVars>>

\* the store before the two calls: no document, or the document one earlier
\* save_exams_details created
InitRace ==
    /\ db \in [Users -> {NoDoc} \cup
                  {Doc(sanitize(c) :> i) : c \in RaceLabels, i \in CourseInfos}]
    /\ call \in {f \in [Procs -> [course : RaceLabels, course_info : CourseInfos]] :
                    sanitize(f["p1"].course) # sanitize(f["p2"].course)}
    /\ pc = [p \in Procs |-> "get"]
    /\ frame = [p \in Procs |-> [doc_exists |-> FALSE, exc |-> "none"]]
    /\ last = NoCall
    /\ KeyOff /\ BlobOff

NextRace == \E p \in Procs : RaceGet(p) \/ RaceWrite(p)

SpecRace == InitRace /\ [][NextRace]_vars

-----------------------------------------------------------------------------
(* Properties.                                                             *)

Getters ==
    {"get_course_code", "get_exact_venue", "get_no_id_venues", "get_exams_venue"}

\* the field path a getter reads
PathRead(op, c) ==
    IF op = "get_course_code" THEN <<sanitize(c), course_code_field>>
    ELSE IF op = "get_exact_venue" THEN <<sanitize(c), Exact_Exams_Venue>>
    ELSE IF op = "get_no_id_venues" THEN <<sanitize(c), No_ID_Venues>>
    ELSE <<All_Exams_Venue>>

\* C1: after a save_exams_details that met no store failure, what
\* get_saved_exams_details returns maps the key of the label to exactly the
\* entry supplied and every other key the record had to its old value; when
\* there was no record, the key is the only one.
C1_UpsertThenRead ==
    (last.op = "save_exams_details" /\ last.exc = "none") =>
        LET rec == get_saved_exams_details(db, last.user_id, 0).ret
            key == sanitize(last.course)
        IN  /\ rec.t = "map"
            /\ key \in DOMAIN rec.m
            /\ rec.m[key] = last.arg
            /\ \A k \in DOMAIN last.pre.data \ {key} :
                   k \in DOMAIN rec.m /\ rec.m[k] = last.pre.data[k]
            /\ ~last.pre.exists => DOMAIN rec.m = {key}

\* the update path: the record existed and held another key
C1_Witness ==
    /\ last.op = "save_exams_details" /\ last.exc = "none"
    /\ last.pre.exists
    /\ DOMAIN last.pre.data \ {sanitize(last.course)} # {}
    /\ last.pre.data # db[last.user_id].data

Uploads == {"upload_screenshot_to_firebase", "upload_calendar_to_firebase"}

FolderOf(op) ==
    IF op = "upload_calendar_to_firebase" THEN "calendars" ELSE "screenshots"

\* C2 as stated: whenever the file was missing, the upload was rejected or
\* the visibility change was rejected, the local file exists when the call
\* returns and no URL is returned; whenever a URL is returned the remote
\* object exists and the local file does not.
C2_Original ==
    last.op \in Uploads =>
        /\ last.exc \in {"FileNotFoundError", "transport"} =>
               last.local_file_path \in local_files /\ last.ret = Null
        /\ last.ret # Null =>
               /\ bucket[<<FolderOf(last.op), last.remote_file_name>>] # "absent"
               /\ last.local_file_path \notin local_files

\* C2, amended: a rejected upload or visibility change leaves the local file
\* in place and returns no URL; a missing file stays missing and returns no
\* URL; the file is gone after the call only if it returned the URL of the
\* public object at folder/name.
C2_LocalFileRemovedOnlyOnSuccess ==
    last.op \in Uploads =>
        LET name == <<FolderOf(last.op), last.remote_file_name>>
        IN  /\ last.exc = "transport" =>
                   last.local_file_path \in local_files /\ last.ret = Null
            /\ last.exc = "FileNotFoundError" =>
                   /\ ~last.had_file
                   /\ last.local_file_path \notin local_files
                   /\ last.ret = Null
                   /\ bucket = last.pre_bucket
            /\ last.ret # Null =>
                   /\ last.ret = Url(name)
                   /\ bucket[name] # "absent"
                   /\ last.local_file_path \notin local_files
            /\ (last.had_file /\ last.local_file_path \notin local_files) =>
                   last.ret = Url(name) /\ bucket[name] = "public"
            /\ ~last.raised

\* the visibility change was rejected after the upload went through
C2_Witness ==
    /\ last.op \in Uploads
    /\ last.exc = "transport"
    /\ last.had_file
    /\ bucket[<<FolderOf(last.op), last.remote_file_name>>] = "private"
    /\ last.pre_bucket[<<FolderOf(last.op), last.remote_file_name>>] = "absent"

\* C3 as stated: whatever a store call of a helper raises, the helper
\* returns to its caller and nothing propagates.
C3_EveryFailureCaught ==
    last.exc # "none" => ~last.raised /\ last.ret = Null

\* the reference of the claim: every maximal run of characters outside the
\* class word becomes one "_", every character of the class is kept
Collapse(s, word) ==
    LET marked == [i \in 1..Len(s) |->
                      IF s[i] \in word THEN s[i]
                      ELSE IF i = 1 \/ s[i - 1] \in word THEN "_"
                      ELSE "dropped"]
    IN  SelectSeq(marked, LAMBDA x : x # "dropped")

\* C4 as stated: the derived key is the reference over [A-Za-z0-9_] for
\* every label, labels with non-ASCII letters or digits included.
C4_Original ==
    stage # "input" => sanitized_course = Collapse(course, AsciiWord)

\* C4, amended: the derived key is the reference over the word characters
\* of Unicode (letters and digits of any script, and "_"): a non-ASCII
\* letter or digit is kept.  On a label without such a character it is the
\* reference over [A-Za-z0-9_], and the example label gives the example key.
C4_CollapsesNonWordRuns ==
    stage # "input" =>
        /\ sanitized_course = Collapse(course, WordChars)
        /\ (\A i \in 1..Len(course) : course[i] \notin NonAsciiAlnum) =>
               sanitized_course = Collapse(course, AsciiWord)
        /\ course = ExampleLabel => sanitized_course = ExampleKey

\* a label with a non-ASCII letter or digit and a run of two non-word
\* characters
C4_Witness ==
    /\ stage = "once"
    /\ \E i \in 1..Len(course) : course[i] \in NonAsciiAlnum
    /\ \E i \in 1..(Len(course) - 1) : ~IsWord(course[i]) /\ ~IsWord(course[i + 1])
    /\ Len(sanitized_course) < Len(course)

\* C5: delete_exams_details writes nothing when the user has no record;
\* when there is one and no store call failed, no key the record had (the
\* aggregate field All_Exams_Venue included) is left in it.
C5_DeleteClearsEveryKey ==
    last.op = "delete_exams_details" =>
        /\ ~last.pre.exists =>
               last.writes = 0 /\ db[last.user_id] = last.pre
        /\ (last.pre.exists /\ last.exc = "none") =>
               /\ \A k \in DOMAIN last.pre.data :
                      k \notin DOMAIN db[last.user_id].data
               /\ last.writes = Cardinality(DOMAIN last.pre.data)
        /\ ~last.raised

\* a record with a course key and the aggregate field was cleared
C5_Witness ==
    /\ last.op = "delete_exams_details" /\ last.exc = "none"
    /\ All_Exams_Venue \in DOMAIN last.pre.data
    /\ Cardinality(DOMAIN last.pre.data) >= 2
    /\ DOMAIN db[last.user_id].data = {}

\* C6: after a set_no_id_venues that met no store failure, the field
\* <key>.No_ID_Venues holds null when the sequence given was empty and the
\* sequence itself otherwise, and get_no_id_venues returns just that.
C6_EmptyListStoredAsNull ==
    (last.op = "set_no_id_venues" /\ last.exc = "none") =>
        LET stored == Lookup(Map(db[last.user_id].data),
                             <<sanitize(last.course), No_ID_Venues>>)
            read == get_no_id_venues(db, last.user_id, last.course, 0)
        IN  /\ last.pre.exists
            /\ stored.found
            /\ ~read.raised
            /\ IF last.arg.l = <<>>
               THEN stored.value = Null /\ read.ret = Null
               ELSE stored.value = last.arg /\ read.ret = last.arg

\* an empty sequence was given and the field held a sequence before
C6_Witness ==
    /\ last.op = "set_no_id_venues" /\ last.exc = "none"
    /\ last.arg.l = <<>>
    /\ LET was == Lookup(Map(last.pre.data),
                         <<sanitize(last.course), No_ID_Venues>>)
       IN  was.found /\ was.value.t = "list"

\* C7: a getter called for a user with no record, or for a record that
\* lacks the path it reads, returns None and raises nothing, and so does
\* get_saved_exams_details for a user with no record (store failures aside).
C7_NotFoundIsNone ==
    /\ (/\ last.op \in Getters
        /\ last.exc # "transport"
        /\ \/ ~last.pre.exists
           \/ ~Lookup(Map(last.pre.data), PathRead(last.op, last.course)).found)
           => last.ret = Null /\ ~last.raised
    /\ (/\ last.op = "get_saved_exams_details"
        /\ last.exc # "transport"
        /\ ~last.pre.exists)
           => last.ret = Null /\ ~last.raised

\* get_exact_venue on a record that lacks the path
C7_Witness ==
    /\ last.op = "get_exact_venue"
    /\ last.pre.exists
    /\ last.exc = "KeyError"
    /\ ~Lookup(Map(last.pre.data), PathRead(last.op, last.course)).found

\* C8 as stated: in each folder, screenshots and calendars, once an object
\* was uploaded under a name, a delete for that name that met no store
\* failure leaves no object at folder/name.
C8_Original ==
    (last.op = "delete_from_firebase_storage" /\ last.exc = "none") =>
        \A folder \in Folders :
            bucket[<<folder, last.remote_file_name>>] = "absent"

\* C8, amended: a delete that met no store failure leaves no object at
\* screenshots/name and leaves every other object, calendars/name among
\* them, as it was: the helper deletes from the screenshots folder only.
C8_DeletesScreenshotOnly ==
    (last.op = "delete_from_firebase_storage" /\ last.exc = "none") =>
        /\ last.pre_bucket[<<"screenshots", last.remote_file_name>>] # "absent"
        /\ bucket[<<"screenshots", last.remote_file_name>>] = "absent"
        /\ \A n \in BlobNames \ {<<"screenshots", last.remote_file_name>>} :
               bucket[n] = last.pre_bucket[n]

\* a screenshot was deleted while a calendar of the same name was there
C8_Witness ==
    /\ last.op = "delete_from_firebase_storage" /\ last.exc = "none"
    /\ last.pre_bucket[<<"calendars", last.remote_file_name>>] = "public"
    /\ bucket[<<"screenshots", last.remote_file_name>>] = "absent"

\* C9: the derivation yields a key for every label (a string of word
\* characters, no longer than the label), and deriving again from the key
\* yields the key: a helper given the key reads and writes the field path a
\* helper given the label does.
C9_Idempotent ==
    /\ stage # "input" =>
           /\ sanitized_course \in Seq(WordChars)
           /\ Len(sanitized_course) <= Len(course)
    /\ stage = "twice" =>
           /\ resanitized = sanitized_course
           /\ parse_field_path(Dotted(resanitized, Exact_Exams_Venue))
                  = <<sanitized_course, Exact_Exams_Venue>>

\* a label with two separate runs of non-word characters, derived twice
C9_Witness ==
    /\ stage = "twice"
    /\ Len(course) = 3
    /\ ~IsWord(course[1]) /\ IsWord(course[2]) /\ ~IsWord(course[3])
    /\ sanitized_course # course

\* C10 as stated: once both callers have returned and no store call failed
\* in transit, the record holds the key of each caller with the entry that
\* caller supplied.
C10_BothEntriesKept ==
    (\A p \in Procs : pc[p] = "done" /\ frame[p].exc # "transport") =>
        \A p \in Procs :
            /\ db[RaceUser].exists
            /\ sanitize(call[p].course) \in DOMAIN db[RaceUser].data
            /\ db[RaceUser].data[sanitize(call[p].course)] = call[p].course_info

=============================================================================
